---- MODULE Spec2Model ----
(***************************************************************************)
(* State-machine model of the agent programs of the repository:            *)
(*   - Projects/1_cli_agent/langgraph_task_agent.py  (program "task_agent") *)
(*   - agents_vaibhav_mehra/Drafter.py               (program "drafter")    *)
(* and of the construction of the task agent's tool registry, applied to   *)
(* bounded tool lists (program "registry", specification SpecRegistry).    *)
(* Further programs, each under a specification of its own:                *)
(*   - two Drafter sessions in one process           (SpecSessions)         *)
(*   - Projects/3_tavily_search_agent, Projects/2_rag_agent (SpecPipelines) *)
(*   - Projects/1_cli_agent/db_tools.py with its tools      (SpecTasks)     *)
(*   - chatbot/st_threading_part2.py                        (SpecChat)      *)
(* One behaviour runs one program; the variable `program` says which.      *)
(* External services (the LLM, the tool handlers' back ends, the console)  *)
(* are nondeterministic inputs drawn from small sets.                      *)
(***************************************************************************)
EXTENDS Integers, Sequences, FiniteSets, TLC

VARIABLES
    program,          \* which script is running
    pc,               \* position of the running script / graph node about to run
    messages,         \* graph state channel "messages"
    llm_calls,        \* graph state channel "llm_calls" (NoKey while the key is absent)
    turn,             \* number of REPL turns started
    result_state,     \* what run_repl received from agent.invoke
    model_input,      \* the message list handed to the last model invocation
    gen,              \* how the last model step's service calls went
    exec,             \* the tool executor call made by the last tool step
    document_content, \* Drafter: the global document text
    files,            \* Drafter: the files written so far, name -> content
    reg,              \* registry construction: entries left, mapping built, lookups
    path,             \* the graph nodes run so far by the current graph invocation
    ran,              \* Drafter: the calls of the last tools step, in the order they ran
    sess,             \* two Drafter sessions of one process (specification SpecSessions)
    web,              \* web-search agent: the AgentState dict
    rag,              \* RAG agent: the AgentState dict
    db,               \* task store: the tasks table, its clock and the last call made
    chat              \* chat UI: st.session_state, the backend's threads, the last run

vars == <<program, pc, messages, llm_calls, turn, result_state, model_input, gen, exec,
          document_content, files, reg, path, ran, sess, web, rag,
          db, chat>>

task_vars == <<llm_calls, turn, result_state, gen, exec>>

drafter_vars == <<document_content, files>>

other_vars == <<sess, web, rag, db, chat>>

(***************************** bounds ***************************************)
MaxBatch == 2       \* tool-invocation requests per assistant message
MaxLlmCalls == 2    \* model steps explored per turn
MaxTurns == 2       \* REPL turns explored
MaxAgentSteps == 2  \* Drafter agent steps explored
MaxDrafterBatch == 1 \* tool-invocation requests per Drafter response
MaxTools == 3       \* length of the tool lists a registry is built from

(***************************** strings **************************************)
UpperCase == "ABCDEFGHIJKLMNOPQRSTUVWXYZ"

LowerCase == "abcdefghijklmnopqrstuvwxyz"

\* the lower-case letter of each upper-case letter
LowerOf ==
    [c \in {SubSeq(UpperCase, i, i) : i \in 1..Len(UpperCase)} |->
        LET i == CHOOSE j \in 1..Len(UpperCase) : SubSeq(UpperCase, j, j) = c
        IN SubSeq(LowerCase, i, i)]

LowerChar(c) == IF c \in DOMAIN LowerOf THEN LowerOf[c] ELSE c

\* str.lower()
RECURSIVE lower(_)
lower(s) == IF s = "" THEN "" ELSE LowerChar(SubSeq(s, 1, 1)) \o lower(SubSeq(s, 2, Len(s)))

\* str.strip()
RECURSIVE lstrip(_)
lstrip(s) == IF s # "" /\ SubSeq(s, 1, 1) = " " THEN lstrip(SubSeq(s, 2, Len(s))) ELSE s

RECURSIVE rstrip(_)
rstrip(s) == IF s # "" /\ SubSeq(s, Len(s), Len(s)) = " " THEN rstrip(SubSeq(s, 1, Len(s) - 1)) ELSE s

strip(s) == rstrip(lstrip(s))

\* str.endswith(suffix)
endswith(s, suffix) ==
    Len(s) >= Len(suffix) /\ SubSeq(s, Len(s) - Len(suffix) + 1, Len(s)) = suffix

\* sub in s
contains(s, sub) ==
    \E i \in 1..(Len(s) - Len(sub) + 1) : SubSeq(s, i, i + Len(sub) - 1) = sub

(***************************** messages *************************************)
\* A message content: the top-level key of a JSON payload ("" for plain text)
\* and its text.
Content(key, text) == [key |-> key, text |-> text]

NoId == <<0, 0>>

\* id is 0 while the message has none
HumanMessage(text) ==
    [type |-> "human", id |-> 0, content |-> Content("", text), tool_calls |-> <<>>,
     tool_call_id |-> NoId]

AIMessage(text, tool_calls) ==
    [type |-> "ai", id |-> 0, content |-> Content("", text), tool_calls |-> tool_calls,
     tool_call_id |-> NoId]

ToolMessage(content, tool_call_id) ==
    [type |-> "tool", id |-> 0, content |-> content, tool_calls |-> <<>>,
     tool_call_id |-> tool_call_id]

SystemMessage(text) ==
    [type |-> "system", id |-> 0, content |-> Content("", text), tool_calls |-> <<>>,
     tool_call_id |-> NoId]

system == SystemMessage("You are a task-agent assistant.")

Last(s) == s[Len(s)]

IsPrefix(s, t) == Len(s) <= Len(t) /\ \A i \in 1..Len(s) : s[i] = t[i]

(***************************** tool registry ********************************)
TOOLS == <<"add_task", "list_tasks", "complete_task", "delete_task", "search_tasks">>

\* One step of {t.name: t for t in TOOLS}: d[t.name] = t, which replaces an entry
\* of the same name.
DictPut(d, t) == [n \in DOMAIN d \cup {t.name} |-> IF n = t.name THEN t.tool ELSE d[n]]

RECURSIVE DictComprehension(_, _)
DictComprehension(tools, d) ==
    IF tools = <<>> THEN d
    ELSE DictComprehension(Tail(tools), DictPut(d, Head(tools)))

EmptyDict == [n \in {} |-> "None"]

ToolEntries == [i \in 1..Len(TOOLS) |-> [name |-> TOOLS[i], tool |-> TOOLS[i]]]

TOOLS_BY_NAME == DictComprehension(ToolEntries, EmptyDict)

\* dict.get(name): the entry, or None when the name is absent.
DictGet(d, name) == IF name \in DOMAIN d THEN d[name] ELSE "None"

(***************************** tool handlers ********************************)
\* The JSON string a tool returns, by its top-level key.
ToolValue(name) ==
    CASE name = "list_tasks"   -> Content("tasks", name)
      [] name = "search_tasks" -> Content("results", name)
      [] OTHER                 -> Content("msg", name)

\* How one handler invocation goes: invoke returns; invoke raises and the direct
\* call returns; invoke raises and the direct call raises too.
Behaviours == {"ok", "raise_then_ok", "raise"}

UnknownToolObs(name) == Content("error", "Unknown tool " \o name)

\* a tag made up by the executor instead of the request's id
ToolCallIdMadeUp(tool_call) == <<0, tool_call.id[2]>>

ToolCallId(tool_call) == tool_call.id

\* The loop of tool_node over the requests of the last message.
RECURSIVE ToolLoop(_, _, _, _)
ToolLoop(calls, behav, i, results) ==
    IF i > Len(calls) THEN [raised |-> FALSE, messages |-> results]
    ELSE LET tool_call == calls[i]
             name == tool_call.name
             tool_callable == DictGet(TOOLS_BY_NAME, name)
         IN IF tool_callable = "None"
            THEN ToolLoop(calls, behav, i + 1,
                     Append(results, ToolMessage(UnknownToolObs(name), ToolCallId(tool_call))))
            ELSE IF behav[i] = "raise"
            THEN [raised |-> TRUE, messages |-> <<>>]
            ELSE ToolLoop(calls, behav, i + 1,
                     Append(results, ToolMessage(ToolValue(tool_callable), ToolCallId(tool_call))))

tool_node(state_messages, behav) ==
    ToolLoop(Last(state_messages).tool_calls, behav, 1, <<>>)

(***************************** graph ****************************************)
\* the channel's value replaced by the update instead of extended by it
operator_replace(old, new) == new

\* Annotated[list[AnyMessage], operator.add]

operator_add(old, new) == old \o new

NoKey == -1

\* the count read as absent whatever the state holds
GetLlmCallsAbsent(v) == 0

\* state.get("llm_calls", 0)
GetLlmCalls(v) == IF v = NoKey THEN 0 ELSE v

ModelInput(incoming) == <<system>> \o incoming

\* the system message returned with the reply
llm_call_messages_with_system(new_msg) == <<system, new_msg>>

llm_call_messages(new_msg) == <<new_msg>>

should_continue_always_tools(msgs) == "tool_node"

\* a loop that stops after its second assistant message
should_continue_capped(msgs) ==
    IF Cardinality({i \in 1..Len(msgs) : msgs[i].type = "ai"}) >= 2 THEN "END"
    ELSE IF msgs # <<>> /\ Last(msgs).tool_calls # <<>> THEN "tool_node"
    ELSE "END"

should_continue(msgs) ==
    LET last == IF msgs # <<>> THEN Last(msgs) ELSE [tool_calls |-> <<>>]
    IN IF msgs # <<>> /\ last.tool_calls # <<>> THEN "tool_node" ELSE "END"

(***************************** the model service ****************************)
RequestNames == {"complete_task", "delete_row"}

Args(name) == IF name = "complete_task" THEN [task_id |-> 1] ELSE [row |-> 1]

\* The batches of requests the n-th model call of a turn may carry; the provider
\* mints a new id for every request.
Batches(n) ==
    UNION { { [i \in 1..k |-> [id |-> <<n, i>>, name |-> names[i], args |-> Args(names[i])]]
              : names \in [1..k -> RequestNames] } : k \in 0..MaxBatch }

NoResult == [set |-> FALSE, messages |-> <<>>, error |-> FALSE]

NoExec == [ran |-> FALSE, requests |-> <<>>, behav |-> <<>>, raised |-> FALSE, results |-> <<>>]

(***************************** task agent ***********************************)
InputLines == {"  ", " Q", "exit", "hello "}

\* values of the variables of the programs that are not running
NoRan == [calls |-> <<>>, io |-> <<>>]

NoSess == <<>>

NoWeb == [set |-> FALSE]

NoRag == [set |-> FALSE]

NoDb == [set |-> FALSE]

NoChat == [set |-> FALSE]

NoReg == [pending |-> <<>>, by_name |-> EmptyDict, lookup |-> "", found |-> "None",
          raised |-> "none"]

InitTaskAgent ==
    /\ program = "task_agent"
    /\ pc = "input"
    /\ messages = <<>>
    /\ llm_calls = NoKey
    /\ turn = 0
    /\ result_state = NoResult
    /\ model_input = <<>>
    /\ gen = "none"
    /\ exec = NoExec
    /\ document_content = ""
    /\ files = EmptyDict
    /\ path = <<>>
    /\ ran = NoRan
    /\ db = NoDb
    /\ chat = NoChat
    /\ sess = NoSess
    /\ web = NoWeb
    /\ rag = NoRag
    /\ reg = NoReg

\* the state of the next turn built on the messages printed for the last one
state_in_carrying_over(out_msgs, user) ==
    [messages |-> out_msgs \o <<HumanMessage(user)>>, llm_calls |-> NoKey]

\* run_repl: messages = [HumanMessage(content=user)]; state_in = {"messages": messages}.
\* out_msgs, the messages of the turn before, is in scope and not used.
state_in(out_msgs, user) ==
    [messages |-> <<HumanMessage(user)>>, llm_calls |-> NoKey]

\* run_repl, from the prompt to agent.invoke(state_in)
ReplInput ==
    /\ program = "task_agent" /\ pc = "input"
    /\ \E eof \in BOOLEAN, line \in InputLines :
         LET user == strip(line)
         IN IF eof \/ lower(user) \in {"exit", "quit", "q"}
            THEN /\ pc' = "exited"
                 /\ UNCHANGED <<messages, llm_calls, turn, result_state, model_input, gen, exec,
                                path>>
            ELSE IF user = ""
            THEN UNCHANGED <<pc, messages, llm_calls, turn, result_state, model_input, gen, exec,
                             path>>
            ELSE /\ turn < MaxTurns
                 /\ pc' = "llm_call"
                 /\ messages' = state_in(result_state.messages, user).messages
                 /\ llm_calls' = state_in(result_state.messages, user).llm_calls
                 /\ turn' = turn + 1
                 /\ result_state' = NoResult
                 /\ model_input' = <<>>
                 /\ gen' = "none"
                 /\ exec' = NoExec
                 /\ path' = <<>>
    /\ UNCHANGED <<program, drafter_vars, reg, ran, other_vars>>

\* node llm_call, then the conditional edge should_continue.  The call of the
\* tool-bound model may raise; the raw model called in its place has no tools
\* bound, so its reply carries no request; if it raises too, llm_call raises.
LlmCall ==
    /\ program = "task_agent" /\ pc = "llm_call"
    /\ GetLlmCalls(llm_calls) < MaxLlmCalls
    /\ LET incoming == messages
           n == GetLlmCalls(llm_calls) + 1
       IN /\ model_input' = ModelInput(incoming)
          /\ \E bound_ok \in BOOLEAN, raw_ok \in BOOLEAN, calls \in Batches(n) :
               IF bound_ok \/ (raw_ok /\ calls = <<>>)
               THEN LET new_msg == AIMessage("reply", calls)
                        merged == operator_add(messages, llm_call_messages(new_msg))
                    IN /\ messages' = merged
                       /\ llm_calls' = n
                       /\ gen' = IF bound_ok THEN "ok" ELSE "recovered"
                       /\ pc' = should_continue(merged)
               ELSE /\ ~bound_ok /\ ~raw_ok /\ calls = <<>>
                    /\ gen' = "failed"
                    /\ pc' = "raised"
                    /\ UNCHANGED <<messages, llm_calls>>
    /\ exec' = NoExec
    /\ path' = Append(path, "llm_call")
    /\ UNCHANGED <<program, turn, result_state, drafter_vars, reg, ran, other_vars>>

\* node tool_node, then the edge back to llm_call.  An exception of the direct
\* call in the except branch leaves tool_node, the graph and run_repl.
ToolNode ==
    /\ program = "task_agent" /\ pc = "tool_node"
    /\ LET calls == Last(messages).tool_calls
       IN \E behav \in [1..Len(calls) -> Behaviours] :
            LET out == tool_node(messages, behav)
            IN /\ exec' = [ran |-> TRUE, requests |-> calls, behav |-> behav,
                           raised |-> out.raised, results |-> out.messages]
               /\ IF out.raised
                  THEN /\ pc' = "raised"
                       /\ UNCHANGED messages
                  ELSE /\ pc' = "llm_call"
                       /\ messages' = operator_add(messages, out.messages)
    /\ path' = Append(path, "tool_node")
    /\ UNCHANGED <<program, llm_calls, turn, result_state, model_input, gen, drafter_vars, reg,
                   ran, other_vars>>

\* END: agent.invoke returns the state to run_repl, which prints it and prompts again
AgentReturn ==
    /\ program = "task_agent" /\ pc = "END"
    /\ result_state' = [set |-> TRUE, messages |-> messages, error |-> FALSE]
    /\ pc' = "input"
    /\ UNCHANGED <<program, messages, llm_calls, turn, model_input, gen, exec, drafter_vars, reg,
                   path, ran, other_vars>>

NextTaskAgent == ReplInput \/ LlmCall \/ ToolNode \/ AgentReturn


(***************************** Drafter: reducer *****************************)
RECURSIVE MaxMessageId(_)
MaxMessageId(msgs) ==
    IF msgs = <<>> THEN 0
    ELSE LET rest == MaxMessageId(Tail(msgs))
         IN IF Head(msgs).id > rest THEN Head(msgs).id ELSE rest

\* every message without an id gets a new one
RECURSIVE AssignIds(_, _)
AssignIds(msgs, next) ==
    IF msgs = <<>> THEN <<>>
    ELSE IF Head(msgs).id = 0
    THEN <<[Head(msgs) EXCEPT !.id = next]>> \o AssignIds(Tail(msgs), next + 1)
    ELSE <<Head(msgs)>> \o AssignIds(Tail(msgs), next)

\* a message of the update replaces the stored message of the same id, or is appended
RECURSIVE MergeById(_, _)
MergeById(merged, right) ==
    IF right = <<>> THEN merged
    ELSE LET m == Head(right)
             at == {i \in 1..Len(merged) : merged[i].id = m.id}
         IN IF at # {}
            THEN MergeById([merged EXCEPT ![CHOOSE i \in at : TRUE] = m], Tail(right))
            ELSE MergeById(Append(merged, m), Tail(right))

\* a reducer that appends the update whatever its ids
add_messages_concat(left, right) == left \o right

\* Annotated[Sequence[BaseMessage], add_messages]
add_messages(left, right) ==
    LET l == AssignIds(left, MaxMessageId(left \o right) + 1)
        r == AssignIds(right, MaxMessageId(l \o right) + 1)
    IN MergeById(l, r)

(***************************** Drafter: tools *******************************)
\* tool update: the new document_content
update_content(content) == content

\* tool update: the confirmation returned
update_returns(content) ==
    "Document has been updated successfully! The current content is: " \o content

\* the suffix added to every name
save_filename_always_append(filename) == filename \o ".txt"

\* tool save: the file name written
save_filename(filename) ==
    IF ~endswith(filename, ".txt") THEN filename \o ".txt" ELSE filename

\* How writing the file goes: it succeeds; open() raises; write() raises after
\* open() has truncated the file.
IoOutcomes == {"ok", "open_raises", "write_raises"}

DictSet(d, k, v) == [n \in DOMAIN d \cup {k} |-> IF n = k THEN v ELSE d[n]]

\* tool save: the files after the call
save_files(filename, doc, fs, io) ==
    CASE io = "ok"           -> DictSet(fs, save_filename(filename), doc)
      [] io = "write_raises" -> DictSet(fs, save_filename(filename), "")
      [] OTHER               -> fs

\* tool save: the message returned
save_returns(filename, io) ==
    CASE io = "ok" ->
            "Document has been saved successfully to '" \o save_filename(filename) \o "'."
      [] io = "open_raises" ->
            "Error saving document: [Errno 13] Permission denied: '"
                \o save_filename(filename) \o "'"
      [] OTHER ->
            "Error saving document: [Errno 28] No space left on device"

tools == <<"update", "save">>

\* ToolNode(tools): the calls of the last message run, each in its own worker, in
\* some order; the results come back in the order of the calls.
RECURSIVE RunTools(_, _, _, _, _, _, _)
RunTools(calls, order, io, k, doc, fs, out) ==
    IF k > Len(calls)
    THEN [doc |-> doc, fs |-> fs,
          messages |-> [i \in 1..Len(calls) |->
                           ToolMessage(Content("", out[i]), calls[i].id)]]
    ELSE LET i == order[k]
             c == calls[i]
         IN IF c.name = "update"
            THEN RunTools(calls, order, io, k + 1, update_content(c.args.content), fs,
                          DictSet(out, i, update_returns(c.args.content)))
            ELSE RunTools(calls, order, io, k + 1, doc,
                          save_files(c.args.filename, doc, fs, io[i]),
                          DictSet(out, i, save_returns(c.args.filename, io[i])))

(***************************** Drafter: graph *******************************)
system_prompt(doc) ==
    SystemMessage("You are Drafter, a helpful writing assistant. The current document content is:"
                  \o doc)

our_agent_messages(state_messages, user_message, response) ==
    state_messages \o <<user_message, response>>

AllMessages(doc, state_messages, user_message) ==
    <<system_prompt(doc)>> \o state_messages \o <<user_message>>

IsSaveConfirmation(m) ==
    /\ m.type = "tool"
    /\ LET content_lower == lower(m.content.text)
       IN contains(content_lower, "saved") /\ contains(content_lower, "document")

drafter_should_continue(msgs) ==
    IF msgs = <<>> THEN "continue"
    ELSE IF \E i \in 1..Len(msgs) : IsSaveConfirmation(msgs[i]) THEN "end"
    ELSE "continue"

DocContents == {"Hello", "Notes saved"}

Filenames == {"notes", "saved.txt"}

ConsoleLines == {"add a title"}

DrafterCalls ==
    { [name |-> "update", args |-> [content |-> c]] : c \in DocContents }
        \cup { [name |-> "save", args |-> [filename |-> f]] : f \in Filenames }

DrafterBatches(n) ==
    UNION { { [i \in 1..k |-> [id |-> <<n, i>>, name |-> cs[i].name, args |-> cs[i].args]]
              : cs \in [1..k -> DrafterCalls] } : k \in 0..MaxDrafterBatch }

AgentSteps(msgs) == Cardinality({i \in 1..Len(msgs) : msgs[i].type = "human"})

InitDrafter ==
    /\ program = "drafter"
    /\ pc = "agent"
    /\ messages = <<>>
    /\ llm_calls = NoKey
    /\ turn = 0
    /\ result_state = NoResult
    /\ model_input = <<>>
    /\ gen = "none"
    /\ exec = NoExec
    /\ document_content = ""
    /\ files = EmptyDict
    /\ path = <<>>
    /\ ran = NoRan
    /\ db = NoDb
    /\ chat = NoChat
    /\ sess = NoSess
    /\ web = NoWeb
    /\ rag = NoRag
    /\ reg = NoReg

\* node agent (our_agent), then the edge to tools
OurAgent ==
    /\ program = "drafter" /\ pc = "agent"
    /\ AgentSteps(messages) < MaxAgentSteps
    /\ \E line \in ConsoleLines, ok \in BOOLEAN, calls \in DrafterBatches(AgentSteps(messages) + 1) :
         LET user_input == IF messages = <<>>
                           THEN "I'm ready to help you update a document. What would you like to create?"
                           ELSE line
             user_message == HumanMessage(user_input)
             response == AIMessage("reply", calls)
         IN /\ model_input' = AllMessages(document_content, messages, user_message)
            /\ IF ok
               THEN /\ messages' = add_messages(messages,
                                       our_agent_messages(messages, user_message, response))
                    /\ gen' = "ok"
                    /\ pc' = "tools"
               ELSE /\ calls = <<>>
                    /\ gen' = "failed"
                    /\ pc' = "raised"
                    /\ UNCHANGED messages
    /\ ran' = NoRan
    /\ UNCHANGED <<program, llm_calls, turn, result_state, exec, drafter_vars, reg, path,
                   other_vars>>

\* node tools (ToolNode), then the conditional edge should_continue
DrafterTools ==
    /\ program = "drafter" /\ pc = "tools"
    /\ LET calls == Last(messages).tool_calls
       IN \E order \in Permutations(1..Len(calls)), io \in [1..Len(calls) -> IoOutcomes] :
            LET out == RunTools(calls, order, io, 1, document_content, files, EmptyDict)
                merged == add_messages(messages, out.messages)
            IN /\ (\A i \in 1..Len(calls) : calls[i].name = "update" => io[i] = "ok")
               /\ messages' = merged
               /\ document_content' = out.doc
               /\ files' = out.fs
               /\ ran' = [calls |-> [k \in 1..Len(calls) |-> calls[order[k]]],
                           io |-> [k \in 1..Len(calls) |-> io[order[k]]]]
               /\ pc' = IF drafter_should_continue(merged) = "end" THEN "END" ELSE "agent"
    /\ UNCHANGED <<program, task_vars, model_input, reg, path, other_vars>>

NextDrafter == OurAgent \/ DrafterTools

(***************************** specification ********************************)
Init == InitTaskAgent \/ InitDrafter

Next == NextTaskAgent \/ NextDrafter

Spec == Init /\ [][Next]_vars

(***************************** two Drafter sessions *************************)
\* Two runs of the compiled graph `app` in one process, their steps interleaved.
\* Each run has its own graph state (messages, position); document_content is
\* the module global and the files are the file system, both common to the runs.
\* sess.doc_from is the session whose update set document_content (0 at start),
\* sess.last_save the session of the last save that wrote a file and the
\* session whose update had set the content it wrote.
MaxSessionSteps == 1   \* agent steps explored per session

Sessions == {1, 2}

NoSave == [by |-> 0, from |-> 0]

SessionMessages(s) == sess.s[s].messages

InitSessions ==
    /\ program = "sessions"
    /\ pc = "running"
    /\ sess = [s |-> [i \in Sessions |-> [pc |-> "agent", messages |-> <<>>]],
               doc_from |-> 0, last_save |-> NoSave]
    /\ document_content = ""
    /\ files = EmptyDict
    /\ messages = <<>>
    /\ llm_calls = NoKey
    /\ turn = 0
    /\ result_state = NoResult
    /\ model_input = <<>>
    /\ gen = "none"
    /\ exec = NoExec
    /\ reg = NoReg
    /\ path = <<>>
    /\ ran = NoRan
    /\ db = NoDb
    /\ chat = NoChat
    /\ web = NoWeb
    /\ rag = NoRag

\* the session of the update that set the content, after the calls order[k..] ran
RECURSIVE DocFrom(_, _, _, _, _)
DocFrom(calls, order, k, s, from) ==
    IF k > Len(calls) THEN from
    ELSE DocFrom(calls, order, k + 1, s,
                 IF calls[order[k]].name = "update" THEN s ELSE from)

\* the last save that wrote a file, after the calls order[k..] ran
RECURSIVE LastSave(_, _, _, _, _, _, _)
LastSave(calls, order, io, k, s, from, last) ==
    IF k > Len(calls) THEN last
    ELSE LET c == calls[order[k]]
         IN IF c.name = "update"
            THEN LastSave(calls, order, io, k + 1, s, s, last)
            ELSE LastSave(calls, order, io, k + 1, s, from,
                          IF io[order[k]] = "ok" THEN [by |-> s, from |-> from] ELSE last)

\* node agent of session s
SessionAgent(s) ==
    /\ program = "sessions"
    /\ sess.s[s].pc = "agent"
    /\ AgentSteps(SessionMessages(s)) < MaxSessionSteps
    /\ \E line \in ConsoleLines, ok \in BOOLEAN,
          calls \in DrafterBatches(AgentSteps(SessionMessages(s)) + 1) :
         LET user_input == IF SessionMessages(s) = <<>>
                           THEN "I'm ready to help you update a document. What would you like to create?"
                           ELSE line
             user_message == HumanMessage(user_input)
             response == AIMessage("reply", calls)
         IN IF ok
            THEN sess' = [sess EXCEPT
                    !.s[s].messages = add_messages(@,
                                         our_agent_messages(@, user_message, response)),
                    !.s[s].pc = "tools"]
            ELSE /\ calls = <<>>
                 /\ sess' = [sess EXCEPT !.s[s].pc = "raised"]
    /\ UNCHANGED <<program, pc, messages, task_vars, model_input, drafter_vars, reg, path, ran,
                   web, rag, db, chat>>

\* node tools of session s, then its conditional edge
SessionTools(s) ==
    /\ program = "sessions"
    /\ sess.s[s].pc = "tools"
    /\ LET calls == Last(SessionMessages(s)).tool_calls
       IN \E order \in Permutations(1..Len(calls)), io \in [1..Len(calls) -> IoOutcomes] :
            LET out == RunTools(calls, order, io, 1, document_content, files, EmptyDict)
                merged == add_messages(SessionMessages(s), out.messages)
            IN /\ (\A i \in 1..Len(calls) : calls[i].name = "update" => io[i] = "ok")
               /\ document_content' = out.doc
               /\ files' = out.fs
               /\ sess' = [sess EXCEPT
                     !.s[s].messages = merged,
                     !.s[s].pc = IF drafter_should_continue(merged) = "end"
                                 THEN "END" ELSE "agent",
                     !.doc_from = DocFrom(calls, order, 1, s, @),
                     !.last_save = LastSave(calls, order, io, 1, s, sess.doc_from, @)]
    /\ UNCHANGED <<program, pc, messages, task_vars, model_input, reg, path, ran, web, rag,
                   db, chat>>

NextSessions == \E s \in Sessions : SessionAgent(s) \/ SessionTools(s)

SpecSessions == InitSessions /\ [][NextSessions]_vars

(***************************** web-search agent *****************************)
\* Projects/3_tavily_search_agent: planner -> executor -> summarizer -> END.
\* An Optional value: None, or the value held.
None == [some |-> FALSE, val |-> ""]

Some(v) == [some |-> TRUE, val |-> v]

NoAction == [some |-> FALSE, action |-> "", query |-> ""]

\* f"PLAN: {action}"
PlanEntry(action) ==
    "PLAN: {'action': '" \o action.action \o "', 'args': {'query': '" \o action.query \o "'}}"

\* f"OBS: Search error - {str(e)}"
SearchErrorEntry(e) == "OBS: Search error - " \o e

InsufficientSummary ==
    "The search results did not contain enough reliable information to answer the query."

MinTextLen == 20

MaxPromptText == 6000

\* text[:6000]
PromptText(text) ==
    IF Len(text) > MaxPromptText THEN SubSeq(text, 1, MaxPromptText) ELSE text

\* a summarizer that asks the LLM about any text that is not empty
summarizer_skips_llm_on_empty(text) == ~text.some \/ text.val = ""

\* not text or len(text.strip()) < 20
summarizer_skips_llm(text) ==
    (~text.some \/ text.val = "") \/ Len(strip(text.val)) < MinTextLen

\* what client.search(...).get("answer", "") may give back
SearchAnswers ==
    {None} \cup { Some(t) : t \in {"", "   ", "CSK bought 5.", "CSK retained Dhoni.",
                                    "CSK retained Jadeja.", "  CSK retained Dhoni.  ",
                                    "CSK signed five players at the auction this year."} }

SearchErrors == {"timeout", "401 Unauthorized"}

Summaries == {"CSK signed five players.", ""}

\* edges that lead from the summarizer back to the planner
web_edges_looping(node) ==
    CASE node = "planner"  -> "executor"
      [] node = "executor" -> "summarizer"
      [] OTHER             -> "planner"

\* build_graph: entry point planner; planner -> executor -> summarizer -> END
web_edges(node) ==
    CASE node = "planner"  -> "executor"
      [] node = "executor" -> "summarizer"
      [] OTHER             -> "END"

InitWeb ==
    /\ program = "web"
    /\ pc = "planner"
    /\ web = [user_task |-> "CSK auction results this year", current_action |-> NoAction,
              extracted_text |-> None, summary |-> None, history |-> <<>>, done |-> FALSE,
              search |-> "none", llm_text |-> None]
    /\ path = <<>>
    /\ gen = "none"
    /\ messages = <<>>
    /\ llm_calls = NoKey
    /\ turn = 0
    /\ result_state = NoResult
    /\ model_input = <<>>
    /\ exec = NoExec
    /\ document_content = ""
    /\ files = EmptyDict
    /\ reg = NoReg
    /\ ran = NoRan
    /\ db = NoDb
    /\ chat = NoChat
    /\ sess = NoSess
    /\ rag = NoRag

pipeline_frame == <<program, messages, llm_calls, turn, result_state, model_input, exec,
                    drafter_vars, reg, ran, sess, db, chat>>

planner_node ==
    /\ program = "web" /\ pc = "planner"
    /\ LET action == [some |-> TRUE, action |-> "search_web", query |-> web.user_task]
       IN web' = [web EXCEPT !.current_action = action,
                             !.history = Append(@, PlanEntry(action))]
    /\ path' = Append(path, "planner")
    /\ pc' = web_edges("planner")
    /\ UNCHANGED <<pipeline_frame, gen, rag>>

executor_node ==
    /\ program = "web" /\ pc = "executor"
    /\ LET action == web.current_action
       IN IF ~action.some
          THEN UNCHANGED web
          ELSE IF action.action = "search_web"
          THEN \/ \E result \in SearchAnswers :
                    web' = [web EXCEPT !.extracted_text = result,
                                       !.history = Append(@, "OBS: Web search completed"),
                                       !.done = TRUE,
                                       !.search = "returned"]
               \/ \E e \in SearchErrors :
                    web' = [web EXCEPT !.extracted_text = None,
                                       !.history = Append(@, SearchErrorEntry(e)),
                                       !.done = TRUE,
                                       !.search = "raised"]
          ELSE web' = [web EXCEPT !.done = TRUE]
    /\ path' = Append(path, "executor")
    /\ pc' = web_edges("executor")
    /\ UNCHANGED <<pipeline_frame, gen, rag>>

summarizer_node ==
    /\ program = "web" /\ pc = "summarizer"
    /\ LET text == web.extracted_text
       IN IF summarizer_skips_llm(text)
          THEN /\ web' = [web EXCEPT !.summary = Some(InsufficientSummary)]
               /\ pc' = web_edges("summarizer")
               /\ UNCHANGED gen
          ELSE \/ \E content \in Summaries :
                    /\ web' = [web EXCEPT !.summary = Some(content),
                                          !.llm_text = Some(PromptText(text.val))]
                    /\ gen' = "ok"
                    /\ pc' = web_edges("summarizer")
               \/ /\ web' = [web EXCEPT !.llm_text = Some(PromptText(text.val))]
                  /\ gen' = "failed"
                  /\ pc' = "raised"
    /\ path' = Append(path, "summarizer")
    /\ UNCHANGED <<pipeline_frame, rag>>

\* main: agent.invoke returns final_state; the trace and the summary are printed
WebMain ==
    /\ program = "web" /\ pc = "END"
    /\ pc' = "printed"
    /\ UNCHANGED <<pipeline_frame, gen, path, web, rag>>

NextWeb == planner_node \/ executor_node \/ summarizer_node \/ WebMain

(***************************** RAG agent ************************************)
\* Projects/2_rag_agent/app/agent.py: START -> retrieve -> generate -> END.
TOP_K == 3

\* the text of the hard stop (its typographic apostrophe written ')
NoDocsAnswer == "I don't know based on the provided documents."

Queries == {"refund policy", "what is langgraph"}

\* page_content of the documents of the collection
Corpus == {"LangGraph is a graph library.", "Refunds take 5 days.", "Support is open 9-5."}

\* what vectorstore.similarity_search(query, k=TOP_K) may give back: at most
\* TOP_K documents of the collection, none twice
Retrievals ==
    UNION { { d \in [1..k -> Corpus] : \A i, j \in 1..k : i # j => d[i] # d[j] }
            : k \in 0..(IF TOP_K < Cardinality(Corpus) THEN TOP_K ELSE Cardinality(Corpus)) }

NoDocs == [some |-> FALSE, val |-> <<>>]

IndexText == <<"0", "1", "2", "3">>

\* "\n\n".join(f"[{i}] {doc.page_content}" for i, doc in enumerate(docs))
RECURSIVE Context(_, _)
Context(docs, i) ==
    IF docs = <<>> THEN ""
    ELSE "[" \o IndexText[i + 1] \o "] " \o Head(docs)
             \o (IF Tail(docs) = <<>> THEN "" ELSE "\n\n" \o Context(Tail(docs), i + 1))

\* state.get("retrieved_docs", [])
GetDocs(state) == IF state.retrieved_docs.some THEN state.retrieved_docs.val ELSE <<>>

\* a generation step that asks the LLM whatever was retrieved
generate_hard_stop_never(docs) == FALSE

\* if not docs
generate_hard_stop(docs) == docs = <<>>

\* response.content of the generation model
AnswerContents == {" Refunds take 5 days [0]. ", "", "I don't know based on the provided documents."}

InitRag ==
    /\ program = "rag"
    /\ pc = "retrieve"
    /\ \E q \in Queries :
         rag = [query |-> q, retrieved_docs |-> NoDocs, answer |-> None, llm_text |-> None,
                returned |-> None]
    /\ path = <<>>
    /\ gen = "none"
    /\ messages = <<>>
    /\ llm_calls = NoKey
    /\ turn = 0
    /\ result_state = NoResult
    /\ model_input = <<>>
    /\ exec = NoExec
    /\ document_content = ""
    /\ files = EmptyDict
    /\ reg = NoReg
    /\ ran = NoRan
    /\ db = NoDb
    /\ chat = NoChat
    /\ sess = NoSess
    /\ web = NoWeb

\* node retrieve; an exception of the vector store leaves the graph
retrieve_docs ==
    /\ program = "rag" /\ pc = "retrieve"
    /\ \/ \E docs \in Retrievals :
            /\ rag' = [rag EXCEPT !.retrieved_docs = [some |-> TRUE, val |-> docs]]
            /\ pc' = "generate"
       \/ /\ pc' = "raised"
          /\ UNCHANGED rag
    /\ path' = Append(path, "retrieve")
    /\ UNCHANGED <<pipeline_frame, gen, web>>

\* node generate; an exception of the LLM leaves the graph
generate_answer ==
    /\ program = "rag" /\ pc = "generate"
    /\ LET docs == GetDocs(rag)
       IN IF generate_hard_stop(docs)
          THEN /\ rag' = [rag EXCEPT !.answer = Some(NoDocsAnswer)]
               /\ pc' = "END"
               /\ UNCHANGED gen
          ELSE LET context == Context(docs, 0)
               IN \/ \E content \in AnswerContents :
                       /\ rag' = [rag EXCEPT !.answer = Some(strip(content)),
                                             !.llm_text = Some(context)]
                       /\ gen' = "ok"
                       /\ pc' = "END"
                  \/ /\ rag' = [rag EXCEPT !.llm_text = Some(context)]
                     /\ gen' = "failed"
                     /\ pc' = "raised"
    /\ path' = Append(path, "generate")
    /\ UNCHANGED <<pipeline_frame, web>>

\* answer_query: result = graph.invoke({"query": query}); return result["answer"]
answer_query ==
    /\ program = "rag" /\ pc = "END"
    /\ rag' = [rag EXCEPT !.returned = rag.answer]
    /\ pc' = "returned"
    /\ UNCHANGED <<pipeline_frame, gen, path, web>>

NextRag == retrieve_docs \/ generate_answer \/ answer_query

\* The two pipelines have no cycle: a node that can run does run.
InitPipelines == InitWeb \/ InitRag

NextPipelines == NextWeb \/ NextRag

SpecPipelines == InitPipelines /\ [][NextPipelines]_vars /\ WF_vars(NextPipelines)

(***************************** task store ***********************************)
\* Projects/1_cli_agent/db_tools.py and the tools of langgraph_task_agent.py that
\* call it.  db.rows is the table tasks in rowid order, a row being
\* [id, title, completed, created_at, updated_at] (the columns description,
\* category, priority and due_date are stored and returned as given and are
\* left out); db.seq is the AUTOINCREMENT sequence; db.clock is the time, which
\* moves on between two readings of utcnow(); db.call is the last tool call and
\* what it returned.  db.alive and db.completed follow the calls made: the ids
\* returned by add_task and not deleted since, and those of them completed.
MaxTasks == 2   \* add_task calls explored
MaxClock == 4   \* readings of the clock explored

Titles == {"buy milk", "call bob"}

TaskIds == 1..(MaxTasks + 1)

IdText == <<"1", "2", "3", "4", "5">>

NoReturn == [msg |-> "", flag |-> FALSE, task_id |-> 0, tasks |-> <<>>]

\* INSERT INTO tasks (...) VALUES (...); cur.lastrowid
db_add_task(rows, seq, now, title) ==
    [rows |-> Append(rows, [id |-> seq + 1, title |-> title, completed |-> 0,
                            created_at |-> now, updated_at |-> now]),
     seq |-> seq + 1,
     lastrowid |-> seq + 1]

\* ORDER BY created_at DESC
RECURSIVE OrderByCreatedDesc(_)
OrderByCreatedDesc(rows) ==
    IF rows = <<>> THEN <<>>
    ELSE LET newest == CHOOSE i \in 1..Len(rows) :
                          \A j \in 1..Len(rows) :
                              \/ rows[j].created_at < rows[i].created_at
                              \/ (rows[j].created_at = rows[i].created_at /\ i <= j)
             rest == [k \in 1..(Len(rows) - 1) |-> IF k < newest THEN rows[k] ELSE rows[k + 1]]
         IN <<rows[newest]>> \o OrderByCreatedDesc(rest)

\* a query that never filters on completed
db_list_tasks_unfiltered(rows, include_completed) == OrderByCreatedDesc(rows)

\* SELECT ... FROM tasks [WHERE completed = 0] ORDER BY created_at DESC
db_list_tasks(rows, include_completed) ==
    OrderByCreatedDesc(IF ~include_completed
                       THEN SelectSeq(rows, LAMBDA r : r.completed = 0)
                       ELSE rows)

\* an UPDATE that has lost its WHERE clause
db_complete_task_every_row(rows, task_id, now) ==
    [rows |-> [i \in 1..Len(rows) |-> [rows[i] EXCEPT !.completed = 1, !.updated_at = now]],
     rowcount |-> Len(rows)]

\* UPDATE tasks SET completed = 1, updated_at = ? WHERE id = ?; cur.rowcount
db_complete_task(rows, task_id, now) ==
    [rows |-> [i \in 1..Len(rows) |->
                 IF rows[i].id = task_id
                 THEN [rows[i] EXCEPT !.completed = 1, !.updated_at = now]
                 ELSE rows[i]],
     rowcount |-> Cardinality({i \in 1..Len(rows) : rows[i].id = task_id})]

\* DELETE FROM tasks WHERE id = ?; cur.rowcount
db_delete_task(rows, task_id) ==
    [rows |-> SelectSeq(rows, LAMBDA r : r.id # task_id),
     rowcount |-> Cardinality({i \in 1..Len(rows) : rows[i].id = task_id})]

\* the items of the tool list_tasks
TaskItems(rows) ==
    [i \in 1..Len(rows) |->
        [id |-> rows[i].id, title |-> rows[i].title, completed |-> rows[i].completed # 0]]

InitTasks ==
    /\ program = "tasks"
    /\ pc = "tools"
    /\ db = [rows |-> <<>>, seq |-> 0, clock |-> 0,
             call |-> [op |-> "none", task_id |-> 0, include_completed |-> FALSE,
                       returned |-> NoReturn],
             alive |-> {}, completed |-> {}]
    /\ messages = <<>>
    /\ llm_calls = NoKey
    /\ turn = 0
    /\ result_state = NoResult
    /\ model_input = <<>>
    /\ gen = "none"
    /\ exec = NoExec
    /\ document_content = ""
    /\ files = EmptyDict
    /\ reg = NoReg
    /\ path = <<>>
    /\ ran = NoRan
    /\ sess = NoSess
    /\ web = NoWeb
    /\ rag = NoRag
    /\ chat = NoChat

store_frame == <<program, pc, messages, llm_calls, turn, result_state, model_input, gen, exec,
                 drafter_vars, reg, path, ran, sess, web, rag>>

\* tool add_task
add_task ==
    /\ program = "tasks"
    /\ db.seq < MaxTasks /\ db.clock < MaxClock
    /\ \E title \in Titles :
         LET now == db.clock + 1
             out == db_add_task(db.rows, db.seq, now, title)
             tid == out.lastrowid
         IN db' = [db EXCEPT
                     !.rows = out.rows, !.seq = out.seq, !.clock = now,
                     !.call = [op |-> "add_task", task_id |-> 0, include_completed |-> FALSE,
                               returned |-> [NoReturn EXCEPT
                                               !.msg = "Added task " \o IdText[tid],
                                               !.task_id = tid]],
                     !.alive = @ \cup {tid}]
    /\ UNCHANGED <<store_frame, chat>>

\* tool list_tasks
list_tasks ==
    /\ program = "tasks"
    /\ \E include_completed \in BOOLEAN :
         LET rows == db_list_tasks(db.rows, include_completed)
         IN db' = [db EXCEPT
                     !.call = [op |-> "list_tasks", task_id |-> 0,
                               include_completed |-> include_completed,
                               returned |-> [NoReturn EXCEPT !.tasks = TaskItems(rows)]]]
    /\ UNCHANGED <<store_frame, chat>>

\* tool complete_task
complete_task ==
    /\ program = "tasks"
    /\ db.clock < MaxClock
    /\ \E task_id \in TaskIds :
         LET now == db.clock + 1
             out == db_complete_task(db.rows, task_id, now)
             updated == out.rowcount
         IN db' = [db EXCEPT
                     !.rows = out.rows, !.clock = now,
                     !.call = [op |-> "complete_task", task_id |-> task_id,
                               include_completed |-> FALSE,
                               returned |-> [NoReturn EXCEPT
                                   !.msg = IF updated # 0
                                           THEN "Marked task " \o IdText[task_id] \o " completed."
                                           ELSE "Task " \o IdText[task_id] \o " not found.",
                                   !.flag = updated # 0]],
                     !.completed = IF task_id \in db.alive THEN @ \cup {task_id} ELSE @]
    /\ UNCHANGED <<store_frame, chat>>

\* tool delete_task
delete_task ==
    /\ program = "tasks"
    /\ \E task_id \in TaskIds :
         LET out == db_delete_task(db.rows, task_id)
             deleted == out.rowcount
         IN db' = [db EXCEPT
                     !.rows = out.rows,
                     !.call = [op |-> "delete_task", task_id |-> task_id,
                               include_completed |-> FALSE,
                               returned |-> [NoReturn EXCEPT
                                   !.msg = IF deleted # 0
                                           THEN "Deleted task " \o IdText[task_id] \o "."
                                           ELSE "Task " \o IdText[task_id] \o " not found.",
                                   !.flag = deleted # 0]],
                     !.alive = @ \ {task_id},
                     !.completed = @ \ {task_id}]
    /\ UNCHANGED <<store_frame, chat>>

NextTasks == add_task \/ list_tasks \/ complete_task \/ delete_task

SpecTasks == InitTasks /\ [][NextTasks]_vars

(***************************** chat UI **************************************)
\* chatbot/st_threading_part2.py.  One action is one run of the script, started
\* by the page load or by one widget event.  chat.st is st.session_state
\* (present once chat.started); chat.backend is what the checkpointer of
\* `chatbot` holds, thread id -> messages; chat.uuids counts the calls of
\* uuid.uuid4(), each of which gives an id not given before; chat.event is the
\* event of the last run.  The module langgraph_backend is not among the
\* sources: `chatbot` is taken to be a compiled graph with a checkpointer that
\* appends the input message and the reply to the thread named in the config.
MaxThreads == 2   \* threads explored
MaxSends == 2     \* sent messages explored

UserInputs == {"hi", "plan a trip"}

Replies == {"Hello!"}

Topics == {" Trip plan "}

\* the upper-case letter of each lower-case letter
UpperOf ==
    [c \in {SubSeq(LowerCase, i, i) : i \in 1..Len(LowerCase)} |->
        LET i == CHOOSE j \in 1..Len(LowerCase) : SubSeq(LowerCase, j, j) = c
        IN SubSeq(UpperCase, i, i)]

\* str.capitalize()
capitalize(s) ==
    IF s = "" THEN ""
    ELSE LET c == SubSeq(s, 1, 1)
         IN (IF c \in DOMAIN UpperOf THEN UpperOf[c] ELSE c) \o lower(SubSeq(s, 2, Len(s)))

\* "\n".join([f"{m['role'].capitalize()}: {m['content']}" for m in messages])
RECURSIVE conv_text(_)
conv_text(history) ==
    IF history = <<>> THEN ""
    ELSE capitalize(Head(history).role) \o ": " \o Head(history).content
            \o (IF Tail(history) = <<>> THEN "" ELSE "\n" \o conv_text(Tail(history)))

topic_prompt(history) ==
    "You are a helpful AI that generates short, meaningful conversation titles.\n"
        \o "Given the conversation below, create a title in **max 5 words** that summarizes the main topic.\n\n"
        \o conv_text(history) \o "\n\n" \o "Title:"

\* chatbot.invoke / chatbot.stream with a thread_id: the thread gains the input
\* message and the reply
chatbot_run(backend, thread_id, content, reply) ==
    LET before == IF thread_id \in DOMAIN backend THEN backend[thread_id] ELSE <<>>
    IN DictSet(backend, thread_id,
               before \o <<[type |-> "human", content |-> content],
                           [type |-> "ai", content |-> reply]>>)

\* chatbot.stream raising in the model call: the thread may keep the input message
chatbot_run_raising(backend, thread_id, content, kept) ==
    LET before == IF thread_id \in DOMAIN backend THEN backend[thread_id] ELSE <<>>
    IN IF kept
       THEN DictSet(backend, thread_id, before \o <<[type |-> "human", content |-> content]>>)
       ELSE backend

\* chatbot.get_state(config).values['messages']: a thread the checkpointer has
\* never written either has no key 'messages' (KeyError) or has no messages
load_conversation(backend, thread_id, no_key) ==
    IF thread_id \in DOMAIN backend
    THEN [raised |-> FALSE, messages |-> backend[thread_id]]
    ELSE [raised |-> no_key, messages |-> <<>>]

\* the loop of the sidebar that fills temp_messages
temp_messages(msgs) ==
    [i \in 1..Len(msgs) |->
        [role |-> IF msgs[i].type = "human" THEN "user" ELSE "assistant",
         content |-> msgs[i].content]]

\* a thread appended although its id is listed
add_thread_unguarded(chat_threads, thread_id, topic) ==
    Append(chat_threads, [id |-> thread_id, topic |-> topic])

add_thread(chat_threads, thread_id, topic) ==
    IF ~(\E i \in 1..Len(chat_threads) : chat_threads[i].id = thread_id)
    THEN Append(chat_threads, [id |-> thread_id, topic |-> topic])
    ELSE chat_threads

reset_chat(st, thread_id) ==
    [st EXCEPT !.chat_threads = add_thread(@, thread_id, "New Chat"),
               !.thread_id = thread_id,
               !.message_history = <<>>]

NoSession == [thread_id |-> 0, chat_threads |-> <<>>, message_history |-> <<>>]

\* Session Setup: the keys missing from st.session_state are set, then
\* add_thread(st.session_state['thread_id'])
SessionSetup(c) ==
    LET st == IF c.started THEN c.st ELSE [NoSession EXCEPT !.thread_id = c.uuids + 1]
    IN [st |-> [st EXCEPT !.chat_threads = add_thread(@, st.thread_id, "New Chat")],
        uuids |-> IF c.started THEN c.uuids ELSE c.uuids + 1]

\* the topic of the current thread replaced
SetTopic(chat_threads, thread_id, topic) ==
    [i \in 1..Len(chat_threads) |->
        IF chat_threads[i].id = thread_id
        THEN [chat_threads[i] EXCEPT !.topic = topic]
        ELSE chat_threads[i]]

UserMessagesCount(history) ==
    Cardinality({i \in 1..Len(history) : history[i].role = "user"})

NoEvent == [kind |-> "none", thread |-> 0, raised |-> FALSE]

InitChat ==
    /\ program = "chat"
    /\ pc = "page"
    /\ chat = [started |-> FALSE, st |-> NoSession, backend |-> EmptyDict, uuids |-> 0,
               sends |-> 0, event |-> NoEvent, llm_failed |-> FALSE]
    /\ messages = <<>>
    /\ llm_calls = NoKey
    /\ turn = 0
    /\ result_state = NoResult
    /\ model_input = <<>>
    /\ gen = "none"
    /\ exec = NoExec
    /\ document_content = ""
    /\ files = EmptyDict
    /\ reg = NoReg
    /\ path = <<>>
    /\ ran = NoRan
    /\ sess = NoSess
    /\ web = NoWeb
    /\ rag = NoRag
    /\ db = NoDb

chat_frame == <<program, pc, messages, llm_calls, turn, result_state, model_input, gen, exec,
                drafter_vars, reg, path, ran, sess, web, rag, db>>

\* a run with no widget event: the page load, or a rerun
PageLoad ==
    /\ program = "chat"
    /\ LET s == SessionSetup(chat)
       IN chat' = [chat EXCEPT !.started = TRUE, !.st = s.st, !.uuids = s.uuids,
                               !.event = [NoEvent EXCEPT !.kind = "load"]]
    /\ UNCHANGED chat_frame

\* a run started by the button New Chat
NewChatClick ==
    /\ program = "chat"
    /\ chat.started
    /\ Len(chat.st.chat_threads) < MaxThreads
    /\ LET s == SessionSetup(chat)
           thread_id == s.uuids + 1
       IN chat' = [chat EXCEPT !.st = reset_chat(s.st, thread_id),
                               !.uuids = thread_id,
                               !.event = [kind |-> "new_chat", thread |-> thread_id,
                                          raised |-> FALSE]]
    /\ UNCHANGED chat_frame

\* a run started by the button of a listed thread; an exception of
\* load_conversation ends the run after thread_id was set
ThreadSelect ==
    /\ program = "chat"
    /\ chat.started
    /\ \E i \in 1..Len(chat.st.chat_threads), no_key \in BOOLEAN :
         LET s == SessionSetup(chat)
             thread == s.st.chat_threads[i]
             loaded == load_conversation(chat.backend, thread.id, no_key)
         IN chat' = [chat EXCEPT
                       !.st = IF loaded.raised
                              THEN [s.st EXCEPT !.thread_id = thread.id]
                              ELSE [s.st EXCEPT !.thread_id = thread.id,
                                                !.message_history = temp_messages(loaded.messages)],
                       !.event = [kind |-> "select", thread |-> thread.id,
                                  raised |-> loaded.raised]]
    /\ UNCHANGED chat_frame

\* a run started by the chat input.  The call for the topic and the call for
\* the reply may raise; the run ends there, with what it wrote so far.
ChatSend ==
    /\ program = "chat"
    /\ chat.started
    /\ chat.sends < MaxSends
    /\ \E user_input \in UserInputs, topic \in Topics, reply \in Replies, kept \in BOOLEAN,
          outcome \in {"ok", "topic_raises", "stream_raises"} :
         LET s == SessionSetup(chat)
             thread_id == s.st.thread_id
             history == Append(s.st.message_history, [role |-> "user", content |-> user_input])
             wants_topic == UserMessagesCount(history) \in {1, 2}
             temp_thread == s.uuids + 1
             uuids == IF wants_topic THEN temp_thread ELSE s.uuids
             titled == IF wants_topic
                       THEN chatbot_run(chat.backend, temp_thread, topic_prompt(history), topic)
                       ELSE chat.backend
             threads == IF wants_topic
                        THEN SetTopic(s.st.chat_threads, thread_id, strip(topic))
                        ELSE s.st.chat_threads
             event == [kind |-> "send", thread |-> thread_id, raised |-> outcome # "ok"]
         IN CASE outcome = "topic_raises" ->
                   /\ wants_topic
                   /\ chat' = [chat EXCEPT
                         !.st = [s.st EXCEPT !.message_history = history],
                         !.backend = chatbot_run_raising(chat.backend, temp_thread,
                                                         topic_prompt(history), kept),
                         !.uuids = uuids, !.sends = @ + 1, !.event = event,
                         !.llm_failed = TRUE]
              [] outcome = "stream_raises" ->
                   chat' = [chat EXCEPT
                         !.st = [s.st EXCEPT !.message_history = history,
                                             !.chat_threads = threads],
                         !.backend = chatbot_run_raising(titled, thread_id, user_input, kept),
                         !.uuids = uuids, !.sends = @ + 1, !.event = event,
                         !.llm_failed = TRUE]
              [] OTHER ->
                   chat' = [chat EXCEPT
                         !.st = [s.st EXCEPT
                                   !.message_history =
                                       Append(history, [role |-> "assistant", content |-> reply]),
                                   !.chat_threads = threads],
                         !.backend = chatbot_run(titled, thread_id, user_input, reply),
                         !.uuids = uuids, !.sends = @ + 1, !.event = event]
    /\ UNCHANGED chat_frame

NextChat == PageLoad \/ NewChatClick \/ ThreadSelect \/ ChatSend

SpecChat == InitChat /\ [][NextChat]_vars

(***************************** registry construction ************************)
\* The construction of TOOLS_BY_NAME and the lookup of tool_node, applied to the
\* tool lists of a bounded set.
ToolNames == {"add_task", "list_tasks"}

ToolObjects == {"tool_a", "tool_b"}

ToolLists ==
    UNION { [1..k -> [name : ToolNames, tool : ToolObjects]] : k \in 1..MaxTools }

LookupNames == ToolNames \cup {"delete_row"}

InitRegistry ==
    /\ program = "registry"
    /\ pc = "build"
    /\ reg \in { [pending |-> l, by_name |-> EmptyDict, lookup |-> "", found |-> "None",
                  raised |-> "none"] : l \in ToolLists }
    /\ messages = <<>>
    /\ llm_calls = NoKey
    /\ turn = 0
    /\ result_state = NoResult
    /\ model_input = <<>>
    /\ gen = "none"
    /\ exec = NoExec
    /\ document_content = ""
    /\ files = EmptyDict
    /\ path = <<>>
    /\ ran = NoRan
    /\ db = NoDb
    /\ chat = NoChat
    /\ sess = NoSess
    /\ web = NoWeb
    /\ rag = NoRag

\* one iteration of the dict comprehension
RegisterNext ==
    /\ program = "registry" /\ pc = "build"
    /\ reg.pending # <<>>
    /\ reg' = [reg EXCEPT !.by_name = DictPut(reg.by_name, Head(reg.pending)),
                          !.pending = Tail(reg.pending)]
    /\ UNCHANGED <<program, pc, messages, task_vars, model_input, drafter_vars, path, ran,
                   other_vars>>

\* the comprehension is done; the module goes on
BuildDone ==
    /\ program = "registry" /\ pc = "build"
    /\ reg.pending = <<>>
    /\ pc' = "built"
    /\ UNCHANGED <<program, reg, messages, task_vars, model_input, drafter_vars, path, ran,
                   other_vars>>

\* TOOLS_BY_NAME.get(name)
Resolve ==
    /\ program = "registry" /\ pc = "built"
    /\ \E name \in LookupNames :
         reg' = [reg EXCEPT !.lookup = name, !.found = DictGet(reg.by_name, name)]
    /\ UNCHANGED <<program, pc, messages, task_vars, model_input, drafter_vars, path, ran,
                   other_vars>>

NextRegistry == RegisterNext \/ BuildDone \/ Resolve

SpecRegistry == InitRegistry /\ [][NextRegistry]_vars

(***************************************************************************)
(* Claims about the tool executor step of the task agent                   *)
(***************************************************************************)
Registered(req) == req.name \in DOMAIN TOOLS_BY_NAME

IsErrorResult(m) == m.type = "tool" /\ m.content.key = "error"

\* C1: for every batch of requests carried by the last assistant message,
\* tool_node returns exactly one tool-result message per request, in the order
\* of the requests, whether or not individual handlers fail.
C1_OneResultPerRequest ==
    exec.ran =>
        /\ ~exec.raised
        /\ Len(exec.results) = Len(exec.requests)
        /\ \A i \in 1..Len(exec.requests) :
              /\ exec.results[i].type = "tool"
              /\ exec.results[i].tool_call_id = exec.requests[i].id

\* C2: when a registered handler raises during the tool step, the executor
\* returns for that request a tool-result message carrying an error payload,
\* and the executor call itself does not raise.
C2_HandlerFailureContained ==
    exec.ran =>
        \A i \in 1..Len(exec.requests) :
            (Registered(exec.requests[i]) /\ exec.behav[i] # "ok") =>
                /\ ~exec.raised
                /\ i <= Len(exec.results)
                /\ IsErrorResult(exec.results[i])

\* C3: a request whose tool name is not registered always yields an error
\* tool-result message and never raises past the executor, and every other
\* request of the batch still gets its own result.
C3_UnknownToolIsolated ==
    exec.ran =>
        \A i \in 1..Len(exec.requests) :
            ~Registered(exec.requests[i]) =>
                /\ ~exec.raised
                /\ Len(exec.results) = Len(exec.requests)
                /\ IsErrorResult(exec.results[i])
                /\ exec.results[i].tool_call_id = exec.requests[i].id

(***************************************************************************)
(* Claims about the loop of the task agent                                 *)
(***************************************************************************)
InTaskLoop == program = "task_agent" /\ pc \in {"llm_call", "tool_node"}

HALTED == program = "task_agent" /\ pc = "END"

C4_HaltedOnlyWithoutRequests ==
    HALTED => /\ messages # <<>>
              /\ Last(messages).type = "ai"
              /\ Last(messages).tool_calls = <<>>

C4_ModelStepRouting ==
    (program = "task_agent" /\ pc = "llm_call" /\ Len(messages') > Len(messages)) =>
        /\ Last(messages').type = "ai"
        /\ pc' = IF Last(messages').tool_calls # <<>> THEN "tool_node" ELSE "END"

C4_NothingAfterHalted ==
    HALTED => /\ pc' \notin {"llm_call", "tool_node"}
              /\ messages' = messages
              /\ llm_calls' = llm_calls
              /\ exec' = exec

\* C4: after each model step the next state is AWAITING_TOOLS (tool_node) if the
\* assistant message just appended carries requests and HALTED (END) otherwise;
\* the loop is HALTED only when the last assistant message carries no request,
\* and no model or tool call happens once the loop is HALTED.
C4_ModelStepDecidesNext ==
    /\ []C4_HaltedOnlyWithoutRequests
    /\ [][C4_ModelStepRouting /\ C4_NothingAfterHalted]_vars

C4_Witness ==
    /\ HALTED
    /\ GetLlmCalls(llm_calls) = 2
    /\ \E k \in 1..Len(messages) : messages[k].type = "tool"

\* C5: every tool executor step is followed by a model step: from AWAITING_TOOLS
\* (tool_node) the loop always goes back to AWAITING_MODEL (llm_call).
C5_ToolStepReturnsToModel ==
    [][(program = "task_agent" /\ pc = "tool_node") => pc' = "llm_call"]_vars

\* The requests of assistant messages before position k whose id is the tag of
\* the message at position k.
MatchingRequests(k) ==
    { p \in (1..(k - 1)) \X (1..Len(messages)) :
        /\ messages[p[1]].type = "ai"
        /\ p[2] <= Len(messages[p[1]].tool_calls)
        /\ messages[p[1]].tool_calls[p[2]].id = messages[k].tool_call_id }

\* C6: in every reachable history of the task agent, the tag of each tool-result
\* message is the id of exactly one request of a preceding assistant message.
C6_ResultTagMatchesOneRequest ==
    program = "task_agent" =>
        \A k \in 1..Len(messages) :
            messages[k].type = "tool" => Cardinality(MatchingRequests(k)) = 1

C6_Witness ==
    /\ program = "task_agent"
    /\ Cardinality({k \in 1..Len(messages) : messages[k].type = "tool"}) >= 2

\* C7: the history is append-only: across every model step and every tool step of
\* the task agent the history before the step is a prefix of the history after.
C7_HistoryAppendOnly ==
    [][InTaskLoop => IsPrefix(messages, messages')]_vars

C7_Witness ==
    /\ program = "task_agent" /\ pc = "llm_call"
    /\ exec.ran /\ Len(exec.results) = 2
    /\ Len(messages) = 4

\* C8: when the text-generation service fails during a model step the failure is
\* not recovered locally: the loop halts with no further model or tool step and
\* the caller receives the partial history together with the error.
C8_GenerationFailureSurfaced ==
    (program = "task_agent" /\ gen \in {"recovered", "failed"}) =>
        /\ ~InTaskLoop
        /\ pc # "END"
        /\ result_state.set
        /\ result_state.error
        /\ result_state.messages = messages

(***************************************************************************)
(* Claims about the system message and the registry                        *)
(***************************************************************************)
NoSystemMessageIn(msgs) == \A i \in 1..Len(msgs) : msgs[i].type # "system"

\* C9: the fixed system message is prepended to the input of every model call
\* and is never stored in the history, in the task agent and in the Drafter.
C9_SystemMessageNeverStored ==
    /\ NoSystemMessageIn(messages)
    /\ model_input # <<>> =>
          /\ Head(model_input).type = "system"
          /\ NoSystemMessageIn(Tail(model_input))

C9_Witness ==
    /\ program = "drafter"
    /\ AgentSteps(messages) = 2
    /\ Len(model_input) >= 5
    /\ Head(model_input) = system_prompt(document_content)
    /\ NoSystemMessageIn(messages)

C10_DuplicateFails ==
    (pc = "build" /\ reg.pending # <<>> /\ Head(reg.pending).name \in DOMAIN reg.by_name) =>
        /\ reg'.raised = "DuplicateNameError"
        /\ reg'.by_name = reg.by_name

C10_UnknownFails ==
    (pc = "built" /\ reg'.lookup \notin DOMAIN reg.by_name) =>
        reg'.raised = "UnknownToolError"

\* C10: registering a tool under a name already in the registry fails with
\* DuplicateNameError and leaves the existing entry unchanged; resolving a name
\* that is not registered fails with UnknownToolError.
C10_RegistryErrors ==
    [][program = "registry" => (C10_DuplicateFails /\ C10_UnknownFails)]_vars

(***************************************************************************)
(* Claims about the loop of the task agent                                 *)
(***************************************************************************)
AIIndexes(msgs) == {i \in 1..Len(msgs) : msgs[i].type = "ai"}

TypesOf(msgs) == [i \in 1..Len(msgs) |-> msgs[i].type]

\* The scenario of C11 with a registered tool in the place of echo: the turn
\* started from the user message "hello", the first reply of the model carries
\* one request for a registered tool, every later reply carries none, and the
\* loop has halted.
C11_Scenario ==
    /\ HALTED
    /\ Head(messages) = HumanMessage("hello")
    /\ LET ai == AIIndexes(messages)
       IN /\ ai # {}
          /\ LET first == CHOOSE i \in ai : \A j \in ai : i <= j
             IN /\ Len(messages[first].tool_calls) = 1
                /\ Registered(messages[first].tool_calls[1])
                /\ \A j \in ai \ {first} : messages[j].tool_calls = <<>>

\* C11 as stated: in the scenario the final history has 4 entries after the
\* initial user message.
C11_FourEntriesAfterUser ==
    C11_Scenario =>
        /\ path = <<"llm_call", "tool_node", "llm_call">>
        /\ GetLlmCalls(llm_calls) = 2
        /\ Len(Tail(messages)) = 4

\* C11 (amended): in the scenario the loop runs llm_call, tool_node, llm_call and
\* halts with exactly two model calls, and the final history has 4 entries, the
\* initial user message included: 3 entries after it (assistant with the
\* request, the tool result tagged with the request's id, final assistant).
C11_EchoScenario ==
    C11_Scenario =>
        /\ path = <<"llm_call", "tool_node", "llm_call">>
        /\ GetLlmCalls(llm_calls) = 2
        /\ TypesOf(messages) = <<"human", "ai", "tool", "ai">>
        /\ Len(Tail(messages)) = 3
        /\ messages[3].tool_call_id = messages[2].tool_calls[1].id
        /\ messages[4].tool_calls = <<>>

C11_Witness ==
    /\ C11_Scenario
    /\ Len(messages) = 4
    /\ messages[2].tool_calls[1].name = "complete_task"

AllRepliesRequestTools == \A i \in AIIndexes(messages) : messages[i].tool_calls # <<>>

C15_TurnStartsFresh ==
    /\ [][(program = "task_agent" /\ pc = "input" /\ pc' = "llm_call") =>
            /\ Len(messages') = 1
            /\ messages'[1].type = "human"
            /\ \E line \in InputLines : messages'[1].content.text = strip(line)
            /\ GetLlmCalls(llm_calls') = 0]_vars
    /\ [](program = "task_agent" =>
            /\ Cardinality({i \in 1..Len(messages) : messages[i].type = "human"}) <= 1
            /\ GetLlmCalls(llm_calls) = Cardinality(AIIndexes(messages))
            /\ (model_input # <<>> => IsPrefix(Tail(model_input), messages)))

C15_Witness ==
    /\ program = "task_agent"
    /\ turn = 2
    /\ pc = "END"
    /\ model_input = <<system, HumanMessage("hello")>>
    /\ GetLlmCalls(llm_calls) = 1

(***************************************************************************)
(* Claims about the Drafter                                                *)
(***************************************************************************)
\* the history holds the result of a save call that reports the file written
SaveSucceeded(msgs) ==
    \E k \in 1..Len(msgs) : \E j \in 1..(k - 1) :
        /\ msgs[k].type = "tool"
        /\ msgs[j].type = "ai"
        /\ \E i \in 1..Len(msgs[j].tool_calls) :
              LET c == msgs[j].tool_calls[i]
              IN /\ c.id = msgs[k].tool_call_id
                 /\ c.name = "save"
                 /\ msgs[k].content.text = save_returns(c.args.filename, "ok")

\* C14: the Drafter is at END only if a save call of the run has succeeded, and
\* the loop continues in every other case (after update results and after
\* failed saves too).
C14_EndOnlyAfterSave ==
    program = "drafter" =>
        /\ (pc = "END" => SaveSucceeded(messages))
        /\ ((pc = "agent" /\ messages # <<>>) => ~SaveSucceeded(messages))

AllIdsDistinct(msgs) ==
    \A i, j \in 1..Len(msgs) : i # j => msgs[i].id # msgs[j].id

\* C16: an agent step of the Drafter extends the stored history by exactly the
\* user message and the assistant response, every earlier message kept once
\* and in place, and it is followed by one tools step, after which the
\* continue/end decision is taken.
C16_AgentStepAddsTwo ==
    [][program = "drafter" =>
        /\ (pc = "agent" => pc' \in {"tools", "raised"})
        /\ ((pc = "agent" /\ pc' = "tools") =>
              /\ Len(messages') = Len(messages) + 2
              /\ IsPrefix(messages, messages')
              /\ messages'[Len(messages) + 1].type = "human"
              /\ messages'[Len(messages) + 2].type = "ai"
              /\ AllIdsDistinct(messages'))
        /\ (pc = "tools" =>
              /\ pc' \in {"agent", "END"}
              /\ IsPrefix(messages, messages')
              /\ Len(messages') = Len(messages) + Len(Last(messages).tool_calls)
              /\ (pc' = "END" <=> drafter_should_continue(messages') = "end"))]_vars

C16_Witness ==
    /\ program = "drafter"
    /\ pc = "tools"
    /\ AgentSteps(messages) = 2
    /\ Len(messages) = 5
    /\ TypesOf(messages) = <<"human", "ai", "tool", "human", "ai">>

\* the document content in front of the k-th call run by the tools step being taken
DocBefore(k) ==
    LET ups == {j \in 1..(k - 1) : ran'.calls[j].name = "update"}
    IN IF ups = {} THEN document_content
       ELSE ran'.calls[CHOOSE j \in ups : \A h \in ups : h <= j].args.content

\* C17: over the calls of a tools step in the order they ran, a save that succeeds
\* writes the content of the most recent update (the content the step started
\* with if none ran before it) to the file named by its argument, with ".txt"
\* added only if the argument lacks it; no save changes the document content.
C17_SaveWritesLastUpdate ==
    [][(program = "drafter" /\ pc = "tools") =>
        LET n == Len(ran'.calls)
        IN /\ n = Len(Last(messages).tool_calls)
           /\ document_content' = DocBefore(n + 1)
           /\ \A k \in 1..n :
                (/\ ran'.calls[k].name = "save"
                 /\ ran'.io[k] = "ok"
                 /\ \A h \in (k + 1)..n : ran'.calls[h].name # "save") =>
                    LET f == ran'.calls[k].args.filename
                        name == IF endswith(f, ".txt") THEN f ELSE f \o ".txt"
                    IN /\ name \in DOMAIN files'
                       /\ files'[name] = DocBefore(k)
           /\ ((\A k \in 1..n : ran'.calls[k].name # "save") => files' = files)
           /\ \A name \in DOMAIN files' : endswith(name, ".txt")]_vars

C17_Witness ==
    /\ program = "drafter"
    /\ document_content = "Hello"
    /\ ran.calls # <<>>
    /\ ran.calls[1].name = "save"
    /\ ran.io[1] = "ok"
    /\ DOMAIN files = {"notes.txt"}
    /\ files["notes.txt"] = "Hello"

\* C13: two Drafter sessions interleaved in one process share no mutable state
\* but the files: the content a save of one session writes was never set by an
\* update of the other session.
C13_SessionsIsolated ==
    program = "sessions" =>
        (sess.last_save.by # 0 => sess.last_save.from \in {0, sess.last_save.by})

(***************************************************************************)
(* Claims about the web-search agent and the RAG agent                     *)
(***************************************************************************)
StartsWith(s, prefix) ==
    Len(s) >= Len(prefix) /\ SubSeq(s, 1, Len(prefix)) = prefix

WebNodes == <<"planner", "executor", "summarizer">>

\* C18: the web-search agent runs planner, executor and summarizer once each,
\* in that order, and always comes to an end; in the final state done is true,
\* summary is set and the history is one PLAN entry followed by one OBS entry,
\* whether the search returned or raised.
C18_PlanExecuteSummarizeOnce ==
    /\ [](program = "web" =>
            /\ IsPrefix(path, WebNodes)
            /\ (pc \in {"END", "printed"} =>
                  /\ path = WebNodes
                  /\ web.done
                  /\ web.summary.some
                  /\ Len(web.history) = 2
                  /\ StartsWith(web.history[1], "PLAN: ")
                  /\ StartsWith(web.history[2], "OBS: ")))
    /\ (program = "web" ~> (program = "web" /\ pc \in {"printed", "raised"}))

C18_Witness ==
    /\ program = "web"
    /\ pc = "printed"
    /\ path = WebNodes
    /\ web.search = "raised"
    /\ web.history = <<"PLAN: {'action': 'search_web', 'args': {'query': 'CSK auction results this year'}}",
                       "OBS: Search error - timeout">>

\* C19: a search that raises never leaves the executor: extracted_text is None
\* and an "OBS: Search error" entry is appended, and the summarizer then gives
\* the fixed summary without calling the LLM; the summarizer calls the LLM
\* exactly when extracted_text is present and has at least 20 characters
\* after stripping.
C19_SearchFailureContained ==
    program = "web" =>
        /\ (web.search = "raised" =>
              /\ ~web.extracted_text.some
              /\ Len(web.history) = 2
              /\ StartsWith(web.history[2], "OBS: Search error")
              /\ pc \in {"summarizer", "END", "printed"}
              /\ gen = "none"
              /\ (Len(path) = 3 => web.summary = Some(InsufficientSummary)))
        /\ (Len(path) = 3 =>
              /\ (gen # "none" <=>
                    (web.extracted_text.some /\ Len(strip(web.extracted_text.val)) >= 20))
              /\ (gen # "none" <=> web.llm_text.some)
              /\ (gen = "none" => web.summary = Some(InsufficientSummary)))
        /\ (Len(path) < 3 => gen = "none")

C19_Witness ==
    /\ program = "web"
    /\ pc = "END"
    /\ web.search = "raised"
    /\ gen = "none"
    /\ web.summary = Some(InsufficientSummary)

\* C20: the RAG agent runs retrieve, then generate, once each per query; when
\* no document was retrieved the answer is the fixed text and the LLM is not
\* invoked; every final state holds an answer, and answer_query returns it.
C20_RetrieveThenGenerate ==
    program = "rag" =>
        /\ IsPrefix(path, <<"retrieve", "generate">>)
        /\ (pc \in {"END", "returned"} =>
              /\ path = <<"retrieve", "generate">>
              /\ rag.answer.some)
        /\ ((Len(path) = 2 /\ rag.retrieved_docs.val = <<>>) =>
              /\ rag.answer = Some(NoDocsAnswer)
              /\ gen = "none"
              /\ pc # "raised")
        /\ (gen # "none" => (Len(path) = 2 /\ rag.retrieved_docs.val # <<>>))
        /\ (pc = "returned" => rag.returned = rag.answer)
        /\ (pc # "returned" => ~rag.returned.some)

C20_Witness ==
    /\ program = "rag"
    /\ pc = "returned"
    /\ rag.retrieved_docs = [some |-> TRUE, val |-> <<>>]
    /\ gen = "none"
    /\ rag.returned = Some(NoDocsAnswer)

(***************************************************************************)
(* Claims about the task store                                             *)
(***************************************************************************)
IdsOf(rows) == {rows[i].id : i \in 1..Len(rows)}

OtherRows(rows, task_id) == SelectSeq(rows, LAMBDA r : r.id # task_id)

\* C21: after any sequence of add_task, complete_task and delete_task calls,
\* list_tasks(include_completed=False) returns exactly the tasks that exist and
\* are not completed and list_tasks(include_completed=True) exactly the tasks
\* that exist, each once; a completed task stays completed until it is
\* deleted, and completing it again changes only its update time.
C21_ListMatchesStore ==
    /\ [](program = "tasks" =>
            /\ IdsOf(db_list_tasks(db.rows, FALSE)) = db.alive \ db.completed
            /\ Len(db_list_tasks(db.rows, FALSE)) = Cardinality(db.alive \ db.completed)
            /\ IdsOf(db_list_tasks(db.rows, TRUE)) = db.alive
            /\ Len(db_list_tasks(db.rows, TRUE)) = Cardinality(db.alive)
            /\ (db.call.op = "list_tasks" =>
                  LET expected == IF db.call.include_completed
                                  THEN db.alive ELSE db.alive \ db.completed
                      items == db.call.returned.tasks
                  IN /\ IdsOf(items) = expected
                     /\ Len(items) = Cardinality(expected)
                     /\ \A i \in 1..Len(items) :
                           items[i].completed <=> items[i].id \in db.completed))
    /\ [][program = "tasks" =>
            \A i \in 1..Len(db.rows) :
                db.rows[i].completed = 1 =>
                    LET row == db.rows[i]
                        again == db'.call.op = "complete_task" /\ db'.call.task_id = row.id
                                    /\ db'.clock # db.clock
                    IN \/ /\ db'.call.op = "delete_task" /\ db'.call.task_id = row.id
                          /\ row.id \notin IdsOf(db'.rows)
                       \/ /\ ~again
                          /\ \E j \in 1..Len(db'.rows) : db'.rows[j] = row
                       \/ /\ again
                          /\ Len(db'.rows) = Len(db.rows)
                          /\ OtherRows(db'.rows, row.id) = OtherRows(db.rows, row.id)
                          /\ db'.rows[i] = [row EXCEPT !.updated_at = db'.rows[i].updated_at]
                          /\ db'.alive = db.alive /\ db'.completed = db.completed]_vars

C21_Witness ==
    /\ program = "tasks"
    /\ db.call.op = "list_tasks"
    /\ ~db.call.include_completed
    /\ Cardinality(db.alive) = 2
    /\ Cardinality(db.completed) = 1
    /\ Len(db.call.returned.tasks) = 1
    /\ db.call.returned.tasks[1].id \notin db.completed

\* C22: complete_task and delete_task called with an id that matches no
\* existing task report "not found" with a false flag and leave every stored
\* task unchanged; called with an existing id they report true and change
\* only that task.
C22_OnlyTheNamedTask ==
    [][(program = "tasks" /\ db' # db /\ db'.call.op \in {"complete_task", "delete_task"}) =>
        LET t == db'.call.task_id
            out == db'.call.returned
        IN IF t \notin db.alive
           THEN /\ db'.rows = db.rows
                /\ out.msg = "Task " \o IdText[t] \o " not found."
                /\ ~out.flag
           ELSE /\ out.flag
                /\ OtherRows(db'.rows, t) = OtherRows(db.rows, t)
                /\ IF db'.call.op = "delete_task"
                   THEN /\ db'.rows = OtherRows(db.rows, t)
                        /\ out.msg = "Deleted task " \o IdText[t] \o "."
                   ELSE /\ Len(db'.rows) = Len(db.rows)
                        /\ out.msg = "Marked task " \o IdText[t] \o " completed."
                        /\ \A i \in 1..Len(db.rows) :
                              db.rows[i].id = t =>
                                  /\ db'.rows[i].completed = 1
                                  /\ db'.rows[i].id = t
                                  /\ db'.rows[i].title = db.rows[i].title
                                  /\ db'.rows[i].created_at = db.rows[i].created_at]_vars

C22_Witness ==
    /\ program = "tasks"
    /\ db.call.op = "complete_task"
    /\ ~db.call.returned.flag
    /\ db.call.task_id <= db.seq
    /\ db.call.returned.msg = "Task 1 not found."
    /\ db.rows # <<>>
    /\ db.rows[1].completed = 0

(***************************************************************************)
(* Claims about the chat UI                                                *)
(***************************************************************************)
ThreadIds(chat_threads) == {chat_threads[i].id : i \in 1..Len(chat_threads)}

\* C23: in the chat UI the ids of chat_threads are pairwise distinct, thread_id
\* is one of them and no thread is ever removed; New Chat adds one thread with
\* a new id, clears message_history and leaves the other threads, their topics
\* and the stored conversations as they were.
C23_ThreadsDistinctAndKept ==
    /\ [](program = "chat" /\ chat.started =>
            LET chat_threads == chat.st.chat_threads
            IN /\ \A i, j \in 1..Len(chat_threads) :
                     i # j => chat_threads[i].id # chat_threads[j].id
               /\ chat.st.thread_id \in ThreadIds(chat_threads))
    /\ [][program = "chat" /\ chat.started =>
            LET old == chat.st.chat_threads
                new == chat'.st.chat_threads
            IN /\ Len(new) >= Len(old)
               /\ \A i \in 1..Len(old) : new[i].id = old[i].id
               /\ (chat'.event.kind = "new_chat" /\ chat' # chat) =>
                     /\ Len(new) = Len(old) + 1
                     /\ SubSeq(new, 1, Len(old)) = old
                     /\ new[Len(new)].id \notin ThreadIds(old)
                     /\ new[Len(new)].topic = "New Chat"
                     /\ chat'.st.thread_id = new[Len(new)].id
                     /\ chat'.st.message_history = <<>>
                     /\ chat'.backend = chat.backend]_vars

C23_Witness ==
    /\ program = "chat"
    /\ chat.event.kind = "new_chat"
    /\ Len(chat.st.chat_threads) = 2
    /\ chat.st.chat_threads[1].topic = "Trip plan"
    /\ chat.st.chat_threads[2].topic = "New Chat"
    /\ chat.st.thread_id = chat.st.chat_threads[2].id
    /\ chat.st.message_history = <<>>

\* the conversation the backend holds for the current thread, as the UI shows one
BackendConversation ==
    temp_messages(IF chat.st.thread_id \in DOMAIN chat.backend
                  THEN chat.backend[chat.st.thread_id] ELSE <<>>)

\* C24: as long as no call of the model has failed, message_history is the
\* conversation the backend holds for the current thread, in order: after a
\* thread was selected (one without messages too), after a message was sent
\* and answered, and with the topic generated on a thread of its own.
C24_HistoryMirrorsBackend ==
    (program = "chat" /\ chat.started /\ ~chat.llm_failed) =>
        chat.st.message_history = BackendConversation

====
